---- MODULE Spec2Model ----
(***************************************************************************)
(* Model of findoutlie/dvars_distribution.py and findoutlie/metrics.py:    *)
(* the DVARS null-distribution pipeline on 4D volume series.               *)
(*                                                                         *)
(* Every function of the two files is a pure function of its argument, so  *)
(* the state is the argument handed to one call and what the call gave     *)
(* back.  float64 values are modelled as exact rationals extended with the *)
(* IEEE special values nan, +inf and -inf (rounding error and the sign of  *)
(* zero are not modelled).                                                 *)
(***************************************************************************)
EXTENDS Integers, Sequences, FiniteSets, TLC

(***************************************************************************)
(* Numbers.  A finite number is <<"fin", e2, e3, e5, n, d>> and stands for *)
(* 2^e2 * 3^e3 * 5^e5 * n / d with d > 0, n and d coprime to each other    *)
(* and to 30; zero is <<"fin",0,0,0,0,1>>.  Keeping the powers of 2, 3 and *)
(* 5 as exponents keeps n and d small although the pipeline multiplies by  *)
(* 100 and divides by the normal IQR several times over.                   *)
(***************************************************************************)
Abs(i) == IF i < 0 THEN -i ELSE i

Min(i, j) == IF i <= j THEN i ELSE j

RECURSIVE Gcd(_, _)
Gcd(a, b) == IF b = 0 THEN a ELSE Gcd(b, a % b)

RECURSIVE Pow(_, _)
Pow(b, e) == IF e <= 0 THEN 1 ELSE b * Pow(b, e - 1)

\* how often the prime p divides n, for n other than 0
RECURSIVE Val(_, _)
Val(n, p) == IF n % p = 0 THEN 1 + Val(n \div p, p) ELSE 0

\* n without its factors p
RECURSIVE Strip(_, _)
Strip(n, p) == IF n % p = 0 THEN Strip(n \div p, p) ELSE n

\* e evaluated once and handed to Body
With(e, Body(_)) == Body(e)

Zero == <<"fin", 0, 0, 0, 0, 1>>

NaN == <<"nan", 0, 0, 0, 0, 1>>

PosInf == <<"inf", 0, 0, 0, 1, 1>>

NegInf == <<"ninf", 0, 0, 0, -1, 1>>

IsNaN(x) == x[1] = "nan"

IsInf(x) == x[1] \in {"inf", "ninf"}

IsFinite(x) == x[1] = "fin"

\* -1, 0 or 1; 0 for nan
Sign(x) == IF x[5] > 0 THEN 1 ELSE IF x[5] < 0 THEN -1 ELSE 0

IsZero(x) == IsFinite(x) /\ x[5] = 0

\* 2^e2 * 3^e3 * 5^e5 * n / d for n other than 0 and d > 0 in lowest terms
Smooth(e2, e3, e5, n, d) ==
    <<"fin",
      e2 + Val(n, 2) - Val(d, 2),
      e3 + Val(n, 3) - Val(d, 3),
      e5 + Val(n, 5) - Val(d, 5),
      Strip(Strip(Strip(n, 2), 3), 5),
      Strip(Strip(Strip(d, 2), 3), 5)>>

\* 2^e2 * 3^e3 * 5^e5 * n / d for n other than 0 and d > 0, g their gcd
Lowest(e2, e3, e5, n, d, g) == Smooth(e2, e3, e5, n \div g, d \div g)

\* the number 2^e2 * 3^e3 * 5^e5 * n / d for any integer n and d > 0
Norm(e2, e3, e5, n, d) ==
    IF n = 0 THEN Zero ELSE Lowest(e2, e3, e5, n, d, Gcd(Abs(n), d))

Rat(n, d) == Norm(0, 0, 0, n, d)

FromInt(i) == Norm(0, 0, 0, i, 1)

Neg(x) ==
    IF IsNaN(x) THEN NaN
    ELSE IF x[1] = "inf" THEN NegInf
    ELSE IF x[1] = "ninf" THEN PosInf
    ELSE <<"fin", x[2], x[3], x[4], -x[5], x[6]>>

\* the product of two finite numbers other than 0, g1 = gcd(|n_x|, d_y)
\* and g2 = gcd(|n_y|, d_x) cancelled first
MulFin(x, y, g1, g2) ==
    <<"fin", x[2] + y[2], x[3] + y[3], x[4] + y[4],
      (x[5] \div g1) * (y[5] \div g2),
      (x[6] \div g2) * (y[6] \div g1)>>

\* IEEE multiplication
Mul(x, y) ==
    IF IsNaN(x) \/ IsNaN(y) THEN NaN
    ELSE IF IsInf(x) \/ IsInf(y)
         THEN IF Sign(x) * Sign(y) = 0 THEN NaN
              ELSE IF Sign(x) * Sign(y) > 0 THEN PosInf ELSE NegInf
    ELSE IF IsZero(x) \/ IsZero(y) THEN Zero
    ELSE MulFin(x, y, Gcd(Abs(x[5]), y[6]), Gcd(Abs(y[5]), x[6]))

\* 1 / x for a finite x other than zero
Inv(x) ==
    IF x[5] > 0 THEN <<"fin", -x[2], -x[3], -x[4], x[6], x[5]>>
    ELSE <<"fin", -x[2], -x[3], -x[4], -x[6], -x[5]>>

\* IEEE division: x / 0 is nan for x = 0 and an infinity otherwise,
\* and raises nothing (numpy float64 arithmetic warns and carries on)
Div(x, y) ==
    IF IsNaN(x) \/ IsNaN(y) THEN NaN
    ELSE IF IsInf(y) THEN (IF IsInf(x) THEN NaN ELSE Zero)
    ELSE IF IsZero(y)
         THEN IF Sign(x) = 0 THEN NaN
              ELSE IF Sign(x) > 0 THEN PosInf ELSE NegInf
    ELSE IF IsInf(x) THEN (IF Sign(x) * Sign(y) > 0 THEN PosInf ELSE NegInf)
    ELSE Mul(x, Inv(y))

\* the sum of two finite numbers other than 0: m2, m3, m5 are the smaller
\* exponents of the two, g the gcd of the denominators
AddFin(x, y, m2, m3, m5, g) ==
    Norm(m2, m3, m5,
         x[5] * Pow(2, x[2] - m2) * Pow(3, x[3] - m3) * Pow(5, x[4] - m5)
              * (y[6] \div g)
           + y[5] * Pow(2, y[2] - m2) * Pow(3, y[3] - m3) * Pow(5, y[4] - m5)
              * (x[6] \div g),
         (x[6] \div g) * y[6])

\* IEEE addition
Add(x, y) ==
    IF IsNaN(x) \/ IsNaN(y) THEN NaN
    ELSE IF IsInf(x) THEN (IF IsInf(y) /\ x # y THEN NaN ELSE x)
    ELSE IF IsInf(y) THEN y
    ELSE IF IsZero(x) THEN y
    ELSE IF IsZero(y) THEN x
    ELSE AddFin(x, y, Min(x[2], y[2]), Min(x[3], y[3]), Min(x[4], y[4]),
                Gcd(x[6], y[6]))

Sub(x, y) == Add(x, Neg(y))

\* x <= y as float64 compares: false when either side is nan
Leq(x, y) ==
    IF IsNaN(x) \/ IsNaN(y) THEN FALSE
    ELSE IF x = y THEN TRUE
    ELSE Sign(Sub(y, x)) > 0

(***************************************************************************)
(* One-dimensional helpers: sequences of numbers.                          *)
(***************************************************************************)
RECURSIVE SumSeq(_)
SumSeq(s) == IF Len(s) = 0 THEN Zero ELSE Add(Head(s), SumSeq(Tail(s)))

\* np.mean of the values of s: nan (0/0) for an empty s
MeanSeq(s) == With(s \o <<>>, LAMBDA v : Div(SumSeq(v), FromInt(Len(v))))

HasNaN(s) == \E k \in 1..Len(s) : IsNaN(s[k])

\* the ascending sequence acc with v put in its place
RECURSIVE Insert(_, _)
Insert(v, acc) ==
    IF Len(acc) = 0 THEN <<v>>
    ELSE IF Leq(v, Head(acc)) THEN <<v>> \o acc
    ELSE <<Head(acc)>> \o Insert(v, Tail(acc))

RECURSIVE Sorted(_)
Sorted(s) == IF Len(s) = 0 THEN <<>> ELSE Insert(Head(s), Sorted(Tail(s)))

\* numpy's _lerp(a, b, t): a + (b - a) * t, and b - (b - a) * (1 - t) from t = 1/2 on
Lerp(a, b, t) ==
    IF Leq(Rat(1, 2), t) THEN Sub(b, Mul(Sub(b, a), Sub(FromInt(1), t)))
    ELSE Add(a, Mul(Sub(b, a), t))

\* the value at virtual index pos / 100 of the ascending sequence a
Interpolated(a, pos) ==
    Lerp(a[(pos \div 100) + 1],
         a[Min((pos \div 100) + 1, Len(a) - 1) + 1],
         Rat(pos % 100, 100))

\* np.percentile(s, q), method "linear", of a sequence s that is not empty:
\* the virtual index (n - 1) * q / 100 into the sorted values, interpolated
\* between its two neighbours; nan as soon as s holds a nan
Percentile(s, q) ==
    With(s \o <<>>, LAMBDA v :
        IF HasNaN(v) THEN NaN
        ELSE Interpolated(Sorted(v), (Len(v) - 1) * q))

\* the middle of the ascending sequence a
Middle(a) ==
    IF Len(a) % 2 = 1 THEN a[(Len(a) + 1) \div 2]
    ELSE MeanSeq(<<a[Len(a) \div 2], a[(Len(a) \div 2) + 1]>>)

\* np.median(s): the middle value, or the mean of the two middle values;
\* nan for an empty s and as soon as s holds a nan
Median(s) ==
    With(s \o <<>>, LAMBDA v :
        IF Len(v) = 0 \/ HasNaN(v) THEN NaN ELSE Middle(Sorted(v)))

(***************************************************************************)
(* Arrays: [shape |-> <<d1, ..., dk>>, val |-> [Indices(shape) -> number]] *)
(* with 0-based index tuples, as numpy has them.                           *)
(***************************************************************************)
RECURSIVE Indices(_)
Indices(shape) ==
    IF Len(shape) = 0 THEN {<<>>}
    ELSE {<<i>> \o r : i \in 0..(shape[1] - 1), r \in Indices(Tail(shape))}

\* the array of the given shape with entry Entry(i) at i; f @@ <<>> is f,
\* with every entry computed here, once
MkArray(shape, Entry(_)) ==
    [shape |-> shape, val |-> [i \in Indices(shape) |-> Entry(i)] @@ <<>>]

RECURSIVE Size(_)
Size(shape) == IF Len(shape) = 0 THEN 1 ELSE shape[1] * Size(Tail(shape))

\* the index tuple at position k (0-based) of the C-order traversal
RECURSIVE Unravel(_, _)
Unravel(k, shape) ==
    IF Len(shape) = 0 THEN <<>>
    ELSE <<k \div Size(Tail(shape))>> \o Unravel(k % Size(Tail(shape)), Tail(shape))

\* the values of an array in C order
Flat(arr) == [k \in 1..Size(arr.shape) |-> arr.val[Unravel(k - 1, arr.shape)]]

Front(s) == SubSeq(s, 1, Len(s) - 1)

Last(s) == s[Len(s)]

\* arr[i1, ..., i(k-1), :] as a sequence, for an index i of the leading axes
Along(arr, i) == [t \in 1..Last(arr.shape) |-> arr.val[i \o <<t - 1>>]]

(***************************************************************************)
(* What a call gives back: a value, or the exception it raised.            *)
(***************************************************************************)
Ok(v) == [raised |-> "none", value |-> v]

Raise(e) == [raised |-> e, value |-> <<>>]

(***************************************************************************)
(* findoutlie/dvars_distribution.py                                        *)
(***************************************************************************)

\* ndtri(0.75), the 75th percentile point of the standard normal
\* distribution (0.67448975...), to four decimals; ndtri(0.25) is its negative
Ndtri75 == Rat(6745, 10000)

Ndtri25 == Neg(Ndtri75)

\* v ** 2
Squared(v) == Mul(v, v)

\* voxel_differences: data[..., :-1] - data[..., 1:], so entry t is
\* volume t minus volume t + 1
voxel_differences(data) ==
    MkArray(Front(data.shape)
                \o <<IF Last(data.shape) >= 1 THEN Last(data.shape) - 1 ELSE 0>>,
            LAMBDA i : Sub(data.val[i], data.val[[i EXCEPT ![Len(i)] = @ + 1]]))

\* np.sum in the place of line 148's np.mean
MeanSquares_Total(d) ==
    MkArray(SubSeq(d.shape, 4, Len(d.shape)),
            LAMBDA j : SumSeq([k \in 1..Size(SubSeq(d.shape, 1, 3)) |->
                          Squared(d.val[Unravel(k - 1, SubSeq(d.shape, 1, 3)) \o j])] \o <<>>))

\* line 148, of the differences d: np.mean(d ** 2, axis = (0, 1, 2)), for d
\* of three dimensions or more
MeanSquares(d) ==
    MkArray(SubSeq(d.shape, 4, Len(d.shape)),
            LAMBDA j : MeanSeq([k \in 1..Size(SubSeq(d.shape, 1, 3)) |->
                          Squared(d.val[Unravel(k - 1, SubSeq(d.shape, 1, 3)) \o j])]))

\* dvars_squared
dvars_squared(data) == MeanSquares(voxel_differences(data))

\* lines 226-240 without line 240's division by iqr_0
IqrRatios_Unscaled(all_voxel_differences) ==
    MkArray(Front(all_voxel_differences.shape),
            LAMBDA i : Sub(Percentile(Along(all_voxel_differences, i), 75),
                           Percentile(Along(all_voxel_differences, i), 25)))

\* lines 226-240 with the percentiles [25, 50] of line 275 in the place of
\* line 234's [25, 75]
IqrRatios_LowerHalf(all_voxel_differences) ==
    MkArray(Front(all_voxel_differences.shape),
            LAMBDA i : Div(Sub(Percentile(Along(all_voxel_differences, i), 50),
                               Percentile(Along(all_voxel_differences, i), 25)),
                           Sub(Ndtri75, Ndtri25)))

\* lines 226-240, of the 4D differences: per voxel, q3 - q1 of its
\* difference series, over iqr_0 = ndtri(0.75) - ndtri(0.25)
IqrRatios(all_voxel_differences) ==
    MkArray(Front(all_voxel_differences.shape),
            LAMBDA i : Div(Sub(Percentile(Along(all_voxel_differences, i), 75),
                               Percentile(Along(all_voxel_differences, i), 25)),
                           Sub(Ndtri75, Ndtri25)))

\* voxel_iqr_variance taking the quartiles of the series themselves
voxel_iqr_variance_OfValues(data) ==
    IF Len(data.shape) # 4 THEN Raise("IndexError")
    ELSE Ok(IqrRatios(data))

\* voxel_iqr_variance.  Indexing [x, y, z, :] raises IndexError on an array
\* of three dimensions (the loops run, every input dimension being >= 1).
voxel_iqr_variance(data) ==
    IF Len(data.shape) # 4 THEN Raise("IndexError")
    ELSE Ok(IqrRatios(voxel_differences(data)))

\* line 204: np.median of the voxel IQR ratios
MedianOf(voxel_iqrs) == Median(Flat(voxel_iqrs))

\* null_distribution_mean
null_distribution_mean(data) ==
    With(voxel_iqr_variance(data), LAMBDA voxel_iqrs :
        IF voxel_iqrs.raised # "none" THEN voxel_iqrs
        ELSE Ok(MedianOf(voxel_iqrs.value)))

\* lines 275-280, of the dvars^2 values in C order: hIQR = q2 - q1, over
\* hIQR_0 = (ndtri(0.75) - ndtri(0.25)) / 2
HalfIqrRatio(dvars_squared_values) ==
    Div(Sub(Percentile(dvars_squared_values, 50),
            Percentile(dvars_squared_values, 25)),
        Div(Sub(Ndtri75, Ndtri25), FromInt(2)))

\* null_distribution_variance
null_distribution_variance(data) ==
    Ok(HalfIqrRatio(Flat(dvars_squared(data)) \o <<>>))

\* line 129: 2 * null_mean * dvars^2 / null_variance per transition, and
\* 2 * null_mean ** 2 / null_variance
ChiSquared(dvars_squared_values, null_mean, null_variance) ==
    [chi_squared_stats |->
         MkArray(dvars_squared_values.shape,
                 LAMBDA j : Div(Mul(Mul(FromInt(2), null_mean),
                                    dvars_squared_values.val[j]),
                                null_variance)),
     dof |-> Div(Mul(FromInt(2), Squared(null_mean)), null_variance)]

\* dvars_chisquared_stat
dvars_chisquared_stat(data) ==
    With(null_distribution_mean(data), LAMBDA null_mean :
        IF null_mean.raised # "none" THEN null_mean
        ELSE Ok(ChiSquared(dvars_squared(data), null_mean.value,
                           null_distribution_variance(data).value)))

\* lines 77-91 with the overall mean m_R subtracted in the place of the
\* voxel's own mean M_Ri
Scaled_AboutGlobalMean(raw_data, m_R) ==
    MkArray(raw_data.shape,
            LAMBDA i : Div(Mul(FromInt(100), Sub(raw_data.val[i], m_R)), m_R))

\* lines 77-91: the scaled intensities, m_R being the overall mean
Scaled(raw_data, m_R) ==
    MkArray(raw_data.shape,
            LAMBDA i : Div(Mul(FromInt(100),
                               Sub(raw_data.val[i],
                                   MeanSeq(Along(raw_data, Front(i))))),
                           m_R))

\* volume_scaling: 100 * (Y_Rit - M_Ri) / m_R with m_R = np.mean(raw_data)
\* and M_Ri the mean of voxel i over time.  Indexing [x, y, z, :] raises
\* IndexError on an array of three dimensions; dividing by m_R = 0 raises
\* nothing.
volume_scaling(raw_data) ==
    IF Len(raw_data.shape) # 4 THEN Raise("IndexError")
    ELSE Ok(Scaled(raw_data, MeanSeq(Flat(raw_data))))

\* scipy.stats.chi2.cdf(x, df) of one statistic, as far as this model knows
\* it: the values scipy may give back, of which `pick` selects one.  nan for
\* a nan argument and for df <= 0 (scipy's argument check df > 0 fails);
\* 0 at and below the support's lower end x = 0; 1 at its upper end
\* x = +inf; strictly inside the support a value of [0, 1] that the model
\* does not compute, drawn from three samples (a nan is allowed as well
\* when df = +inf, where scipy's incomplete gamma function is at its limit).
Chi2CdfValues(x, df) ==
    IF IsNaN(x) \/ IsNaN(df) \/ Sign(df) <= 0 THEN <<NaN>>
    ELSE IF Sign(x) <= 0 THEN <<Zero>>
    ELSE IF x = PosInf
         THEN (IF df = PosInf THEN <<FromInt(1), NaN>> ELSE <<FromInt(1)>>)
    ELSE IF df = PosInf THEN <<Zero, NaN>>
    ELSE <<Rat(1, 2), Rat(39, 40), Rat(199, 200)>>

Chi2Cdf(x, df, pick) ==
    Chi2CdfValues(x, df)[((pick - 1) % Len(Chi2CdfValues(x, df))) + 1]

\* dvars_pvals, lines 29-33: the scaled data and its chi-squared statistics
dvars_pvals_stats(raw_data) ==
    With(volume_scaling(raw_data), LAMBDA data :
        IF data.raised # "none" THEN data
        ELSE dvars_chisquared_stat(data.value))

\* line 36: the right-tail p-values 1 - chi2.cdf(chisquared_stats, dof)
RightTail(chisquared_stats, degrees_of_freedom, picks) ==
    MkArray(chisquared_stats.shape,
            LAMBDA j : Sub(FromInt(1),
                           Chi2Cdf(chisquared_stats.val[j], degrees_of_freedom,
                                   picks[j[1] + 1])))

\* lines 38-44 with p < alpha in the place of line 42's p <= alpha
Bonferroni_Strict(p_vals, alpha) ==
    [p_vals      |-> MkArray(p_vals.shape,
                             LAMBDA j : Mul(p_vals.val[j], FromInt(p_vals.shape[1]))),
     reject_null |-> MkArray(p_vals.shape,
                             LAMBDA j : /\ Leq(Mul(p_vals.val[j], FromInt(p_vals.shape[1])),
                                               alpha)
                                        /\ Mul(p_vals.val[j], FromInt(p_vals.shape[1]))
                                               # alpha)]

\* lines 38-44: the p-values times their number, and the flags p <= alpha
Bonferroni(p_vals, alpha) ==
    [p_vals      |-> MkArray(p_vals.shape,
                             LAMBDA j : Mul(p_vals.val[j], FromInt(p_vals.shape[1]))),
     reject_null |-> MkArray(p_vals.shape,
                             LAMBDA j : Leq(Mul(p_vals.val[j], FromInt(p_vals.shape[1])),
                                            alpha))]

(***************************************************************************)
(* findoutlie/metrics.py                                                   *)
(***************************************************************************)

\* np.sqrt of a number, kept as the number it is the root of
Sqrt(v) == <<"sqrt", v>>

\* lines 34-40: the root of the mean squared difference of volume t and
\* volume t + 1, per transition of a 4D array
RootMeanSquares(data) ==
    MkArray(<<IF Last(data.shape) >= 1 THEN Last(data.shape) - 1 ELSE 0>>,
            LAMBDA j : Sqrt(MeanSeq([k \in 1..Size(Front(data.shape)) |->
                              Squared(Sub(data.val[Unravel(k - 1, Front(data.shape)) \o j],
                                          data.val[Unravel(k - 1, Front(data.shape))
                                                       \o <<j[1] + 1>>]))])))

\* dvars: TypeError unless img is a nibabel image, ValueError unless its
\* data is 4D
dvars(img) ==
    IF ~img.is_nifti THEN Raise("TypeError")
    ELSE IF Len(img.data.shape) # 4 THEN Raise("ValueError")
    ELSE Ok(RootMeanSquares(img.data))

(***************************************************************************)
(* The inputs.                                                             *)
(***************************************************************************)
\* the longest series of free intensities
MaxT == 3

\* the largest free intensity
MaxVal == 1

\* the spatial shapes: one voxel, and two voxels
SpatialShapes == {<<1, 1, 1>>, <<1, 2, 1>>}

Intensities == {FromInt(v) : v \in 0..MaxVal}

Arrays(shape) ==
    {[shape |-> shape, val |-> v] : v \in [Indices(shape) -> Intensities]}

\* every 4D series of the spatial shapes with 1..MaxT volumes
Series4D == UNION {Arrays(s \o <<T>>) : s \in SpatialShapes, T \in 1..MaxT}

\* 3D arrays: what a caller passes who forgot an axis
Series3D == UNION {Arrays(<<1, 1, T>>) : T \in 1..MaxT}

\* volume t filled with t (the ramp of test_voxel_iqr_variance) and with
\* t ** 2 (test_null_distribution_mean), on two voxels
Ramp(T) == MkArray(<<1, 2, 1, T>>, LAMBDA i : FromInt(i[4]))

Squares(T) == MkArray(<<1, 2, 1, T>>, LAMBDA i : FromInt(i[4] * i[4]))

\* one voxel at rest until its last volume: T - 1 volumes of 0, then a 1
Onset(T) == MkArray(<<1, 1, 1, T>>, LAMBDA i : FromInt(IF i[4] = T - 1 THEN 1 ELSE 0))

Inputs == Series4D \cup Series3D
              \cup {Ramp(T) : T \in 2..(MaxT + 2)}
              \cup {Squares(T) : T \in 2..(MaxT + 2)}
              \cup {Onset(T) : T \in 3..(MaxT + 1)}

\* the significance thresholds tried: the default 0.05, and 0.025
Alphas == {Rat(1, 20), Rat(1, 40)}

\* what the chi-squared distribution function is asked to pick among
Picks == 1..3

(***************************************************************************)
(* The state: the array handed to one call, the function called, what it   *)
(* gave back, and the call's other arguments and locals.  The functions    *)
(* are pure and keep nothing between calls, so one call per behaviour      *)
(* shows them all.                                                         *)
(***************************************************************************)
VARIABLES data, called, ret, locals

vars == <<data, called, ret, locals>>

NoLocals == [none |-> TRUE]

Init ==
    /\ data \in Inputs
    /\ called = "none"
    /\ ret = Ok(<<>>)
    /\ locals = NoLocals

\* np.percentile is asked for the quartiles of an empty sequence when a 4D
\* series has a single volume; what it does then differs between numpy
\* versions, and such calls are left out
QuartilesDefined == Len(data.shape) = 4 => Last(data.shape) >= 2

Return(name, outcome) ==
    /\ called' = name
    /\ ret' = outcome
    /\ UNCHANGED data

CallVoxelDifferences ==
    /\ called = "none"
    /\ Return("voxel_differences", Ok(voxel_differences(data)))
    /\ UNCHANGED locals

CallDvarsSquared ==
    /\ called = "none"
    /\ Return("dvars_squared", Ok(dvars_squared(data)))
    /\ UNCHANGED locals

CallVoxelIqrVariance ==
    /\ called = "none"
    /\ QuartilesDefined
    /\ Return("voxel_iqr_variance", voxel_iqr_variance(data))
    /\ UNCHANGED locals

CallNullDistributionMean ==
    /\ called = "none"
    /\ QuartilesDefined
    /\ Return("null_distribution_mean", null_distribution_mean(data))
    /\ UNCHANGED locals

CallNullDistributionVariance ==
    /\ called = "none"
    /\ QuartilesDefined
    /\ Return("null_distribution_variance", null_distribution_variance(data))
    /\ UNCHANGED locals

CallDvarsChisquaredStat ==
    /\ called = "none"
    /\ QuartilesDefined
    /\ Return("dvars_chisquared_stat", dvars_chisquared_stat(data))
    /\ UNCHANGED locals

CallVolumeScaling ==
    /\ called = "none"
    /\ Return("volume_scaling", volume_scaling(data))
    /\ UNCHANGED locals

CallDvarsPvals ==
    /\ called = "none"
    /\ QuartilesDefined
    /\ \E stats \in {dvars_pvals_stats(data)}, alpha \in Alphas :
           IF stats.raised # "none"
           THEN /\ Return("dvars_pvals", stats)
                /\ locals' = [alpha |-> alpha]
           ELSE \E picks \in [1..stats.value.chi_squared_stats.shape[1] -> Picks] :
                  \E p_vals \in {RightTail(stats.value.chi_squared_stats,
                                           stats.value.dof, picks)} :
                      /\ Return("dvars_pvals", Ok(Bonferroni(p_vals, alpha)))
                      /\ locals' = [alpha |-> alpha, p_vals |-> p_vals]

CallDvars ==
    /\ called = "none"
    /\ \E is_nifti \in BOOLEAN :
           /\ Return("dvars", dvars([is_nifti |-> is_nifti, data |-> data]))
           /\ locals' = [is_nifti |-> is_nifti]

Next ==
    \/ CallVoxelDifferences
    \/ CallDvarsSquared
    \/ CallVoxelIqrVariance
    \/ CallNullDistributionMean
    \/ CallNullDistributionVariance
    \/ CallDvarsChisquaredStat
    \/ CallVolumeScaling
    \/ CallDvarsPvals
    \/ CallDvars

Spec == Init /\ [][Next]_vars

(***************************************************************************)
(* The properties checked.                                                 *)
(***************************************************************************)
Is4D == Len(data.shape) = 4

NumVolumes == Last(data.shape)

\* a volume series as the data model has it: 4D with two volumes or more
IsSeries == Is4D /\ NumVolumes >= 2

Spatial == Front(data.shape)

Voxels == Indices(Spatial)

Transitions == 0..(NumVolumes - 2)

\* volume t + 1 minus volume t at voxel v
Step(v, t) == Sub(data.val[v \o <<t + 1>>], data.val[v \o <<t>>])

\* the steps of voxel v, in time order
Steps(v) == [k \in 1..(NumVolumes - 1) |-> Step(v, k - 1)] \o <<>>

\* the difference series the data model defines: entry t is volume t + 1
\* minus volume t
LaterMinusEarlier ==
    MkArray(Spatial \o <<NumVolumes - 1>>, LAMBDA i : Step(Front(i), Last(i)))

SameSeriesEverywhere ==
    \A v, w \in Voxels : \A t \in 0..(NumVolumes - 1) :
        data.val[v \o <<t>>] = data.val[w \o <<t>>]

ConstantOverTime ==
    \A v \in Voxels : \A t \in 0..(NumVolumes - 1) :
        data.val[v \o <<t>>] = data.val[v \o <<0>>]

\* volume t filled with the value t
IsRamp == IsSeries /\ \A i \in Indices(data.shape) : data.val[i] = FromInt(i[4])

Iqr(s) == Sub(Percentile(s, 75), Percentile(s, 25))

Iqr0 == Sub(Ndtri75, Ndtri25)

\* the temporal mean of voxel v, and the mean of these over the voxels
VoxelMean(v) == MeanSeq(Along(data, v))

GlobalScale == MeanSeq([k \in 1..Size(Spatial) |-> VoxelMean(Unravel(k - 1, Spatial))])

AllFinite(arr) == \A i \in Indices(arr.shape) : IsFinite(arr.val[i])

\* C1: on a series, entry (x, y, z, t) of what voxel_differences returns is
\* volume t + 1 minus volume t, for every voxel and every t in 0..T-2.
C1_LaterMinusEarlier ==
    (called = "voxel_differences" /\ IsSeries) =>
        /\ ret.raised = "none"
        /\ ret.value.shape = Spatial \o <<NumVolumes - 1>>
        /\ \A v \in Voxels : \A t \in Transitions :
               ret.value.val[v \o <<t>>] = Step(v, t)

\* C2: dvars_pvals returns, for the T - 1 transitions of a series, the
\* uncorrected right-tail p-values times their number N = T - 1 (not
\* clipped to 1), and flags transition t exactly when p(t) * N <= alpha.
C2_BonferroniRejection ==
    (called = "dvars_pvals" /\ IsSeries) =>
        /\ ret.raised = "none"
        /\ locals.p_vals.shape = <<NumVolumes - 1>>
        /\ ret.value.p_vals.shape = <<NumVolumes - 1>>
        /\ ret.value.reject_null.shape = <<NumVolumes - 1>>
        /\ \A t \in Transitions :
               /\ ret.value.p_vals.val[<<t>>]
                      = Mul(locals.p_vals.val[<<t>>], FromInt(NumVolumes - 1))
               /\ ret.value.reject_null.val[<<t>>]
                      = Leq(Mul(locals.p_vals.val[<<t>>], FromInt(NumVolumes - 1)),
                            locals.alpha)

\* a call of dvars_pvals on four volumes that flags a transition and
\* returns a corrected p-value above 1 for another
C2_Witness ==
    /\ called = "dvars_pvals" /\ IsSeries /\ ret.raised = "none"
    /\ NumVolumes = 4
    /\ \E t \in Transitions : ret.value.reject_null.val[<<t>>]
    /\ \E t \in Transitions :
           /\ ~ret.value.reject_null.val[<<t>>]
           /\ Leq(FromInt(1), ret.value.p_vals.val[<<t>>])
           /\ ret.value.p_vals.val[<<t>>] # FromInt(1)

\* C3: dvars_squared returns T - 1 values; value t is the sum over the
\* voxels of (volume t + 1 minus volume t) squared, divided by the number
\* of voxels, and is >= 0.
C3_DvarsSquaredIsMeanSquare ==
    (called = "dvars_squared" /\ IsSeries) =>
        /\ ret.raised = "none"
        /\ ret.value.shape = <<NumVolumes - 1>>
        /\ \A t \in Transitions :
               /\ ret.value.val[<<t>>]
                      = Div(SumSeq([k \in 1..Size(Spatial) |->
                                      Squared(Step(Unravel(k - 1, Spatial), t))] \o <<>>),
                            FromInt(Size(Spatial)))
               /\ Leq(Zero, ret.value.val[<<t>>])

\* dvars_squared over two voxels of which one alone changed, by 1
C3_Witness ==
    /\ called = "dvars_squared" /\ IsSeries /\ ret.raised = "none"
    /\ Size(Spatial) = 2
    /\ \E t \in Transitions : ret.value.val[<<t>>] = Rat(1, 2)

\* C4: when every voxel carries the same series s, null_distribution_mean
\* returns (Q3 - Q1) of the consecutive differences of s over the normal
\* IQR, and 0 when the input is constant over time.
C4_NullMeanOfUniformSeries ==
    (called = "null_distribution_mean" /\ IsSeries /\ SameSeriesEverywhere) =>
        /\ ret.raised = "none"
        /\ ret.value = Div(Iqr(Steps(Unravel(0, Spatial))), Iqr0)
        /\ ConstantOverTime => ret.value = Zero

\* two voxels with one series, not constant, whose null mean is not 0
C4_Witness ==
    /\ called = "null_distribution_mean" /\ IsSeries /\ SameSeriesEverywhere
    /\ Size(Spatial) = 2
    /\ ret.raised = "none" /\ Sign(ret.value) > 0

C6_ScaledToPercentOfGlobalMean ==
    (called = "volume_scaling" /\ Is4D /\ ~IsZero(GlobalScale)) =>
        /\ ret.raised = "none"
        /\ ret.value.shape = data.shape
        /\ \A v \in Voxels :
               /\ \A t \in 0..(NumVolumes - 1) :
                      ret.value.val[v \o <<t>>]
                          = Div(Mul(FromInt(100),
                                    Sub(data.val[v \o <<t>>], VoxelMean(v))),
                                GlobalScale)
               /\ SumSeq(Along(ret.value, v) \o <<>>) = Zero

\* volume_scaling of two voxels over three volumes with a scaled entry
\* that is not 0
C6_Witness ==
    /\ called = "volume_scaling" /\ Is4D /\ ~IsZero(GlobalScale)
    /\ Size(Spatial) = 2 /\ NumVolumes = 3
    /\ ret.raised = "none"
    /\ \E i \in Indices(data.shape) : Sign(ret.value.val[i]) < 0

\* C7: for an input that is constant over time the null mean is 0, the
\* chi-squared statistic is 0 for every transition (no nan), and
\* dvars_pvals flags no transition.
C7_ConstantSeriesIsDegenerate ==
    (IsSeries /\ ConstantOverTime) =>
        /\ called = "null_distribution_mean" =>
               (ret.raised = "none" /\ ret.value = Zero)
        /\ called = "dvars_chisquared_stat" =>
               /\ ret.raised = "none"
               /\ \A t \in Transitions :
                      ret.value.chi_squared_stats.val[<<t>>] = Zero
        /\ called = "dvars_pvals" =>
               /\ ret.raised = "none"
               /\ \A t \in Transitions : ~ret.value.reject_null.val[<<t>>]
               /\ AllFinite(ret.value.p_vals)

\* C8: volume_scaling raises when m_R = 0, dvars_chisquared_stat and
\* dvars_pvals raise when variance_0 <= 0, and nothing they return holds a
\* nan or an infinity.
C8_DegenerateInputRaises ==
    IsSeries =>
        /\ called = "volume_scaling" =>
               /\ IsZero(GlobalScale) => ret.raised # "none"
               /\ ret.raised = "none" => AllFinite(ret.value)
        /\ called = "dvars_chisquared_stat" =>
               /\ Leq(null_distribution_variance(data).value, Zero)
                      => ret.raised # "none"
               /\ ret.raised = "none" =>
                      /\ AllFinite(ret.value.chi_squared_stats)
                      /\ IsFinite(ret.value.dof)
        /\ called = "dvars_pvals" =>
               (ret.raised = "none" => AllFinite(ret.value.p_vals))

\* C9: on an input that is not 4D or has fewer than two volumes,
\* voxel_differences and the operations built on it (dvars_squared,
\* null_distribution_mean, null_distribution_variance, dvars_pvals,
\* metrics.dvars) raise.
C9_BadShapeRaises ==
    (/\ called \in {"voxel_differences", "dvars_squared", "null_distribution_mean",
                    "null_distribution_variance", "dvars_pvals", "dvars"}
     /\ ~IsSeries)
        => ret.raised # "none"

\* C10: on a series, what dvars_squared, voxel_iqr_variance,
\* null_distribution_mean and null_distribution_variance return is what
\* they give when the difference series is volume t + 1 minus volume t.
C10_SignOfDifferenceIsImmaterial ==
    IsSeries =>
        /\ called = "dvars_squared" =>
               ret = Ok(MeanSquares(LaterMinusEarlier))
        /\ called = "voxel_iqr_variance" =>
               ret = Ok(IqrRatios(LaterMinusEarlier))
        /\ called = "null_distribution_mean" =>
               ret = Ok(MedianOf(IqrRatios(LaterMinusEarlier)))
        /\ called = "null_distribution_variance" =>
               ret = Ok(HalfIqrRatio(Flat(MeanSquares(LaterMinusEarlier)) \o <<>>))

\* voxel_iqr_variance of a voxel whose steps lie unevenly about their
\* median, so that the steps and their negatives differ in their quartiles
C10_Witness ==
    /\ called = "voxel_iqr_variance" /\ IsSeries /\ ret.raised = "none"
    /\ \E v \in Voxels :
           /\ Sign(ret.value.val[v]) > 0
           /\ Sub(Percentile(Steps(v), 75), Percentile(Steps(v), 50))
                  # Sub(Percentile(Steps(v), 50), Percentile(Steps(v), 25))

====
